---- MODULE Spec2Model ----
(***************************************************************************)
(* Leader election of rbd-mirror: a set of LeaderWatcher instances that    *)
(* share one lock object (src/tools/rbd_mirror/LeaderWatcher.h).           *)
(*                                                                         *)
(* The header holds the state diagram of the election state machine, the   *)
(* LeaderLock hooks, the member state and the handler declarations.  The   *)
(* handler bodies, the managed lock and the watch/notify transport are not *)
(* part of the header; they follow the state diagram where it speaks and   *)
(* the prose specification elsewhere.                                      *)
(*                                                                         *)
(* Results of asynchronous operations are integers as in the code:         *)
(*   0 success, -1 a generic error, -2 ENOENT, -11 EAGAIN (lock is held).  *)
(***************************************************************************)
EXTENDS Integers, Sequences, FiniteSets, TLC

\* ---------------------------------------------------------------- bounds
\* Failed acquire attempts after which a waiting instance breaks the lock.
MaxAcquireAttemptsBeforeBreak == 2
\* Disturbances per behaviour: failures injected into an operation
\* (transport, status watcher, listener) and notifications of other clients.
MaxFaults == 1
\* Notifications queued for one watcher; further ones time out undelivered.
MaxInbox == 1

Inst == {"A", "B"}
None == "none"
\* sender id of a notification that no instance of the model has sent
External == "ext"

VARIABLES
  w,        \* w[i]: the member state of LeaderWatcher instance i
  owner,    \* the holder recorded at the shared lock object, or None
  inbox,    \* inbox[i]: notifications delivered to i's watch, not yet handled
  crashed,  \* the instance that stopped (no heartbeat, no RPC), or None
  faults,   \* disturbances so far
  g         \* g[i]: history of what instance i did (observations only)

vars == <<w, owner, inbox, crashed, faults, g>>

\* ------------------------------------------------------------ member state
\* A freshly constructed LeaderWatcher (header lines 154-166).
FreshWatcher ==
  [ op                    |-> "uninitialized",
    lstate                |-> "unlocked",
    m_on_finish           |-> "null",
    m_on_shut_down_finish |-> FALSE,
    m_acquire_attempts    |-> 0,
    m_notify_error        |-> 0,
    m_timer_task          |-> "null",
    m_locker              |-> None,
    m_status_watcher      |-> FALSE,
    watch                 |-> FALSE,
    queued_release        |-> FALSE ]

FreshHistory ==
  [ init_r      |-> "none",   \* what init() reported to its caller
    unmatched   |-> 0,        \* post_acquire_handler calls without pre_release
    orphan_pre  |-> FALSE,    \* a pre_release_handler call with none to match
    post_done   |-> FALSE,    \* post_acquire_handler completed, this acquisition
    acq_bcast   |-> FALSE,    \* LockAcquired broadcast issued, this acquisition
    broken      |-> FALSE,    \* a peer broke this instance's lock
    wake        |-> "none",   \* what ended the wait before this attempt
    notify_failed |-> FALSE,  \* the last change was a broadcast that failed
    sd_call     |-> "none",   \* situation in which shut_down() was called
    sd_pre      |-> FALSE,    \* pre_release_handler invoked since shut_down()
    sd_rpc      |-> FALSE,    \* lock release RPC issued since shut_down()
    sd_rel      |-> FALSE ]   \* LockReleased broadcast since shut_down()

NotifyOps == {"notify_lock_acquired", "notify_lock_released", "notify_heartbeat"}

PayloadOf(o) ==
  CASE o = "notify_lock_acquired" -> "LockAcquired"
    [] o = "notify_lock_released" -> "LockReleased"
    [] OTHER                      -> "Heartbeat"

\* LeaderLock::is_leader
is_leader(s) == s.lstate \in {"post_acquiring", "locked"}

\* ------------------------------------------------------------- timer task
cancel_timer_task(s) == [s EXCEPT !.m_timer_task = "null"]

\* (variant: the callback is never handed to the timer)
schedule_timer_task_NotArmed(s, name) ==
  IF s.m_on_shut_down_finish
    THEN s
    ELSE [cancel_timer_task(s) EXCEPT !.op = "idle"]

\* Arms the one timer task of the instance; the previous one is cancelled
\* first, and nothing is armed once shut_down() has been requested.
schedule_timer_task(s, name) ==
  IF s.m_on_shut_down_finish
    THEN s
    ELSE [cancel_timer_task(s) EXCEPT !.m_timer_task = name, !.op = "idle"]

\* ------------------------------------------------- dispatch of operations
create_leader_object(s)     == [s EXCEPT !.op = "create_object"]
register_watch(s)           == [s EXCEPT !.op = "register_watch"]
shut_down_leader_lock(s)    == [s EXCEPT !.op = "shut_down_leader_lock"]
unregister_watch(s)         == [s EXCEPT !.op = "unregister_watch"]
break_leader_lock(s)        == [s EXCEPT !.op = "break_lock"]
get_locker(s)               == [s EXCEPT !.op = "get_locker"]
init_status_watcher(s)      == [s EXCEPT !.op = "init_status_watcher"]
shut_down_status_watcher(s) == [s EXCEPT !.op = "shut_down_status_watcher"]
notify_listener(s)          == [s EXCEPT !.op = "notify_listener"]
notify_lock_acquired(s)     == [s EXCEPT !.op = "notify_lock_acquired"]
notify_lock_released(s)     == [s EXCEPT !.op = "notify_lock_released"]
notify_heartbeat(s)         == [s EXCEPT !.op = "notify_heartbeat"]

\* (variant: the attempt counter is never reset)
acquire_leader_lock_NoReset(s, reset_attempt_counter) ==
  [s EXCEPT !.m_acquire_attempts = @ + 1,
            !.lstate = "acquiring",
            !.op = "acquire"]

\* acquire_leader_lock(bool reset_attempt_counter): counts the attempt and
\* asks the lock adapter to try the lock.
acquire_leader_lock(s, reset_attempt_counter) ==
  [s EXCEPT !.m_acquire_attempts = (IF reset_attempt_counter THEN 0 ELSE @) + 1,
            !.lstate = "acquiring",
            !.op = "acquire"]

\* ------------------------------------------------------- LeaderLock hooks
handle_pre_release_leader_lock(s) ==
  notify_listener([s EXCEPT !.m_on_finish = "lock", !.m_notify_error = 0])

\* LeaderLock::pre_release_lock_handler
pre_release_lock_handler(s) == handle_pre_release_leader_lock(s)

\* release_leader_lock: the lock adapter leaves the locked state and runs
\* the pre-release hook before the release RPC.
release_leader_lock(s) ==
  pre_release_lock_handler([s EXCEPT !.lstate = "pre_releasing",
                                     !.queued_release = FALSE])

\* On an error the hook completes on_finish(r) at once and the lock adapter
\* finishes the failed attempt ("acquire_failed").
handle_post_acquire_leader_lock(s, r) ==
  IF r < 0
    THEN [s EXCEPT !.op = "acquire_failed"]
    ELSE init_status_watcher([s EXCEPT !.m_on_finish = "lock",
                                       !.m_notify_error = 0])

\* (variant: the post-acquiring state is entered whatever the result)
post_acquire_lock_handler_AnyResult(s, r) ==
  handle_post_acquire_leader_lock([s EXCEPT !.lstate = "post_acquiring"], r)

\* (variant: the post-acquiring state is not entered)
post_acquire_lock_handler_NoState(s, r) ==
  handle_post_acquire_leader_lock(s, r)

\* LeaderLock::post_acquire_lock_handler
post_acquire_lock_handler(s, r) ==
  handle_post_acquire_leader_lock(
    IF r = 0 THEN [s EXCEPT !.lstate = "post_acquiring"] ELSE s, r)

handle_post_release_leader_lock(s, r) ==
  IF r < 0 THEN s
  ELSE notify_lock_released([s EXCEPT !.m_on_finish = "lock"])

\* (variant: the hook completes without the LockReleased broadcast)
post_release_lock_handler_NoBroadcast(s, r) ==
  IF s.m_on_shut_down_finish THEN shut_down_leader_lock(s)
  ELSE schedule_timer_task(s, "acquire")

\* LeaderLock::post_release_lock_handler
post_release_lock_handler(s, r) == handle_post_release_leader_lock(s, r)

\* ------------------------------------------------- completion handlers
\* init failed: report to the caller, nothing is left behind.
FinishInit(s) ==
  [s EXCEPT !.m_on_finish = "null", !.m_on_shut_down_finish = FALSE,
            !.op = "uninitialized"]

handle_create_leader_object(s, r) ==
  IF r = 0 THEN register_watch(s) ELSE FinishInit(s)

\* (variant: the first attempt starts although the watch failed)
handle_register_watch_AcquireOnError(s, r) ==
  acquire_leader_lock([s EXCEPT !.watch = (r = 0), !.m_on_finish = "null"], TRUE)

handle_register_watch(s, r) ==
  IF r < 0 THEN FinishInit(s)
  ELSE LET t == [s EXCEPT !.watch = TRUE, !.m_on_finish = "null"] IN
       IF t.m_on_shut_down_finish THEN shut_down_leader_lock(t)
       ELSE acquire_leader_lock(t, TRUE)

\* (variant: a failed attempt runs the release path)
handle_acquire_leader_lock_ReleaseOnError(s, r) ==
  LET t == [s EXCEPT !.m_acquire_attempts = IF r < 0 THEN @ ELSE 0] IN
  IF r < 0 \/ t.m_on_shut_down_finish \/ t.m_notify_error # 0 \/ t.queued_release
    THEN release_leader_lock(t)
    ELSE notify_heartbeat(t)

\* (variant: a shutdown requested during the attempt tears down at once)
handle_acquire_leader_lock_TeardownHeld(s, r) ==
  IF s.m_on_shut_down_finish THEN shut_down_leader_lock(s)
  ELSE IF r < 0 THEN get_locker(s)
  ELSE LET t == [s EXCEPT !.m_acquire_attempts = 0] IN
       IF t.m_notify_error # 0 \/ t.queued_release
         THEN release_leader_lock(t)
         ELSE notify_heartbeat(t)

handle_acquire_leader_lock(s, r) ==
  IF r < 0
    THEN IF s.m_on_shut_down_finish THEN shut_down_leader_lock(s)
         ELSE get_locker(s)
    ELSE LET t == [s EXCEPT !.m_acquire_attempts = 0] IN
         IF t.m_on_shut_down_finish \/ t.m_notify_error # 0 \/ t.queued_release
           THEN release_leader_lock(t)
           ELSE notify_heartbeat(t)

\* (variant: LockAcquired is broadcast without waiting for the Listener)
handle_init_status_watcher_SkipListener(s, r) ==
  IF r = 0
    THEN notify_lock_acquired([s EXCEPT !.m_status_watcher = TRUE])
    ELSE [s EXCEPT !.m_status_watcher = FALSE, !.m_on_finish = "null",
                   !.op = "acquire_failed"]

\* (variant: a status watcher whose init failed is kept)
handle_init_status_watcher_LeakOnError(s, r) ==
  IF r = 0
    THEN notify_listener([s EXCEPT !.m_status_watcher = TRUE])
    ELSE [s EXCEPT !.m_status_watcher = TRUE, !.m_on_finish = "null",
                   !.op = "acquire_failed"]

handle_init_status_watcher(s, r) ==
  IF r = 0
    THEN notify_listener([s EXCEPT !.m_status_watcher = TRUE])
    ELSE [s EXCEPT !.m_status_watcher = FALSE, !.m_on_finish = "null",
                   !.op = "acquire_failed"]

\* (variant: the release RPC is sent with the status watcher still running)
handle_notify_listener_SkipStatusWatcher(s, r) ==
  LET t == IF r < 0 THEN [s EXCEPT !.m_notify_error = r] ELSE s IN
  IF is_leader(t) THEN notify_lock_acquired(t)
  ELSE [t EXCEPT !.m_on_finish = "null", !.lstate = "releasing",
                 !.op = "release_lock"]

\* notify_listener picked the handler by is_leader(); so does its completion.
handle_notify_listener(s, r) ==
  LET t == IF r < 0 THEN [s EXCEPT !.m_notify_error = r] ELSE s IN
  IF is_leader(t) THEN notify_lock_acquired(t)
  ELSE shut_down_status_watcher(t)

\* The post-acquire chain ends: on_finish(0) lets the lock adapter enter the
\* locked state, which completes the acquire request.
handle_notify_lock_acquired(s, r) ==
  LET t == IF r < 0 THEN [s EXCEPT !.m_notify_error = r] ELSE s IN
  handle_acquire_leader_lock(
    [t EXCEPT !.m_on_finish = "null", !.lstate = "locked"], 0)

\* (variant: a failed heartbeat broadcast is ignored)
handle_notify_heartbeat_IgnoreError(s, r) ==
  IF s.m_on_shut_down_finish \/ s.queued_release
    THEN release_leader_lock(s)
    ELSE schedule_timer_task(s, "heartbeat")

handle_notify_heartbeat(s, r) ==
  IF s.m_on_shut_down_finish \/ r < 0 \/ s.queued_release
    THEN release_leader_lock(s)
    ELSE schedule_timer_task(s, "heartbeat")

\* (variant: LockReleased is broadcast before the release RPC)
handle_shut_down_status_watcher_NotifyFirst(s, r) ==
  notify_lock_released([s EXCEPT !.m_status_watcher = FALSE])

\* The pre-release chain ends: on_finish lets the lock adapter send the
\* release RPC.
handle_shut_down_status_watcher(s, r) ==
  [s EXCEPT !.m_status_watcher = FALSE, !.m_on_finish = "null",
            !.lstate = "releasing", !.op = "release_lock"]

handle_release_leader_lock(s, r) ==
  IF s.m_on_shut_down_finish THEN shut_down_leader_lock(s)
  ELSE schedule_timer_task(s, "acquire")

handle_notify_lock_released(s, r) ==
  LET t == IF r < 0 THEN [s EXCEPT !.m_notify_error = r] ELSE s IN
  handle_release_leader_lock([t EXCEPT !.m_on_finish = "null"], 0)

\* (variant: the lock is broken without counting failed attempts)
handle_get_locker_BreakAtOnce(s, r, locker) ==
  IF s.m_on_shut_down_finish THEN shut_down_leader_lock(s)
  ELSE IF r = -2 THEN acquire_leader_lock([s EXCEPT !.m_locker = None], TRUE)
  ELSE IF r < 0 THEN schedule_timer_task(s, "get_locker")
  ELSE break_leader_lock([s EXCEPT !.m_locker = locker])

handle_get_locker(s, r, locker) ==
  IF s.m_on_shut_down_finish THEN shut_down_leader_lock(s)
  ELSE IF r = -2 THEN acquire_leader_lock([s EXCEPT !.m_locker = None], TRUE)
  ELSE IF r < 0 THEN schedule_timer_task(s, "get_locker")
  ELSE LET t == [s EXCEPT !.m_locker = locker] IN
       IF t.m_acquire_attempts >= MaxAcquireAttemptsBeforeBreak
         THEN break_leader_lock(t)
         ELSE schedule_timer_task(t, "acquire")

handle_break_leader_lock(s, r) ==
  IF s.m_on_shut_down_finish THEN shut_down_leader_lock(s)
  ELSE IF r < 0 /\ r # -2 THEN schedule_timer_task(s, "get_locker")
  ELSE acquire_leader_lock(
         [s EXCEPT !.m_locker = None, !.m_acquire_attempts = 0], FALSE)

\* (variant: shut_down() completes with the watch still registered)
handle_shut_down_leader_lock_SkipUnregister(s, r) ==
  [s EXCEPT !.m_on_shut_down_finish = FALSE,
            !.lstate = "unlocked", !.op = "uninitialized"]

handle_shut_down_leader_lock(s, r) ==
  unregister_watch([s EXCEPT !.lstate = "shutdown"])

\* shut_down() completes; the lock adapter is destroyed with it and init()
\* creates it anew.
handle_unregister_watch(s, r) ==
  [s EXCEPT !.watch = FALSE, !.m_on_shut_down_finish = FALSE,
            !.lstate = "unlocked", !.op = "uninitialized"]

\* The timer task fires: heartbeat when leader, liveness poll when not.
timer_task_fired(s) ==
  LET t == [s EXCEPT !.m_timer_task = "null"] IN
  CASE s.m_timer_task = "heartbeat" ->
         IF is_leader(t) THEN notify_heartbeat(t) ELSE t
    [] s.m_timer_task = "acquire" ->
         IF is_leader(t) THEN t ELSE acquire_leader_lock(t, FALSE)
    [] OTHER ->
         IF is_leader(t) THEN t ELSE get_locker(t)

\* ------------------------------------------------------------ public API
init(s) ==
  create_leader_object([s EXCEPT !.m_on_finish = "init"])

\* (variant: no check for a shutdown requested or done)
shut_down_NoCheck(s) ==
  LET t == cancel_timer_task([s EXCEPT !.m_on_shut_down_finish = TRUE]) IN
  IF t.op \notin {"idle", "uninitialized"} THEN t
  ELSE IF is_leader(t) THEN release_leader_lock(t)
  ELSE shut_down_leader_lock(t)

\* shut_down(): a repeated call finds the shutdown requested or done and
\* returns.  Otherwise the timer task is cancelled and teardown starts, or
\* waits for the operation in flight to complete.
shut_down(s) ==
  IF s.op = "uninitialized" \/ s.m_on_shut_down_finish THEN s
  ELSE LET t == cancel_timer_task([s EXCEPT !.m_on_shut_down_finish = TRUE]) IN
       IF t.op # "idle" THEN t
       ELSE IF is_leader(t) THEN release_leader_lock(t)
       ELSE shut_down_leader_lock(t)

\* release_leader(): nothing when not Leader; queued behind a heartbeat
\* broadcast in flight.
release_leader(s) ==
  IF s.lstate # "locked" \/ s.m_on_shut_down_finish THEN s
  ELSE IF s.op = "idle" THEN release_leader_lock(cancel_timer_task(s))
  ELSE [s EXCEPT !.queued_release = TRUE]

\* ------------------------------------------------- incoming notifications
\* A candidate waits in <secondary> with its timer task armed.
Waiting(s) == ~is_leader(s) /\ s.op = "idle" /\ s.m_timer_task # "null"

\* Each handler returns the new member state and the number of times it
\* completed on_notify_ack.
\* (variant: any non-leader queries the holder, waiting or not)
handle_heartbeat_Unguarded(s) ==
  [ s    |-> IF ~is_leader(s) THEN get_locker(cancel_timer_task(s)) ELSE s,
    acks |-> 1 ]

handle_heartbeat(s) ==
  [ s    |-> IF Waiting(s) THEN get_locker(cancel_timer_task(s)) ELSE s,
    acks |-> 1 ]

\* (variant: LockAcquired starts an acquire attempt)
handle_lock_acquired_Acquire(s) ==
  [ s    |-> IF Waiting(s) THEN acquire_leader_lock(cancel_timer_task(s), FALSE)
             ELSE s,
    acks |-> 1 ]

handle_lock_acquired(s) ==
  [ s    |-> IF Waiting(s) THEN get_locker(cancel_timer_task(s)) ELSE s,
    acks |-> 1 ]

\* (variant: the wait timer is left armed)
handle_lock_released_KeepTimer(s) ==
  [ s    |-> IF Waiting(s) THEN acquire_leader_lock(s, TRUE) ELSE s,
    acks |-> 1 ]

handle_lock_released(s) ==
  [ s    |-> IF Waiting(s) THEN acquire_leader_lock(cancel_timer_task(s), TRUE)
             ELSE s,
    acks |-> 1 ]

handle_payload(s, kind) ==
  CASE kind = "Heartbeat"    -> handle_heartbeat(s)
    [] kind = "LockAcquired" -> handle_lock_acquired(s)
    [] kind = "LockReleased" -> handle_lock_released(s)
    [] OTHER                 -> [s |-> s, acks |-> 1]   \* UnknownPayload

\* (variant: the visitor completes on_notify_ack itself as well)
HandlePayloadVisitor_DoubleAck(s, kind) ==
  [handle_payload(s, kind) EXCEPT !.acks = @ + 1]

\* HandlePayloadVisitor: hands the payload and on_notify_ack to handle_payload
HandlePayloadVisitor(s, kind) == handle_payload(s, kind)

\* handle_notify: a notification that does not decode is acknowledged and
\* dropped, the others are dispatched on their payload.
handle_notify(s, msg) ==
  IF msg.kind = "Undecodable"
    THEN [s |-> s, acks |-> 1]
    ELSE HandlePayloadVisitor(s, msg.kind)

\* --------------------------------------------------------- environment
\* The other watchers a broadcast of i reaches.
Reaches(i, j) ==
  j # i /\ j # crashed /\ w[j].watch /\ Len(inbox[j]) < MaxInbox

Broadcast(i, kind) ==
  [j \in Inst |-> IF Reaches(i, j)
                    THEN Append(inbox[j], [from |-> i, kind |-> kind])
                    ELSE inbox[j]]

\* Every watcher acknowledged the notification i has in flight.
Acked(i) ==
  \A j \in Inst : \A k \in 1..Len(inbox[j]) : inbox[j][k].from # i

\* Results an operation may complete with: ok, or an injected failure.
Results == {0} \cup (IF faults < MaxFaults THEN {-1} ELSE {})

\* ----------------------------------------------------------- observation
Dispatched(old, new, o) == new.op = o /\ old.op # o

\* Operations of one acquisition attempt of a candidate.
AttemptOps == {"acquire", "acquire_failed", "get_locker", "break_lock"}

\* cause: "timer" when the step is the timer task firing, "released" when it
\* is a LockReleased notification that ended a wait, "notify" when it is
\* another notification that ended a wait, "failed" when it is the
\* completion of a broadcast that failed, "none" otherwise.
ObserveBy(old, new, h, cause) ==
  LET post_call == Dispatched(old, new, "notify_listener") /\ is_leader(new)
      pre_call  == Dispatched(old, new, "notify_listener") /\ ~is_leader(new)
      post_end  == old.op = "notify_listener" /\ is_leader(old)
                     /\ new.op # "notify_listener"
      since_sd  == new.m_on_shut_down_finish \/ old.m_on_shut_down_finish
  IN [h EXCEPT
        !.init_r     = IF old.m_on_finish = "init" /\ new.m_on_finish = "null"
                         THEN (IF new.watch THEN "ok" ELSE "err")
                       ELSE IF Dispatched(old, new, "create_object")
                              \/ Dispatched(old, new, "uninitialized")
                         THEN "none"
                       ELSE @,
        !.unmatched  = IF post_call THEN (IF @ < 2 THEN @ + 1 ELSE @)
                       ELSE IF pre_call /\ @ > 0 THEN @ - 1 ELSE @,
        !.orphan_pre = @ \/ (pre_call /\ h.unmatched = 0),
        !.post_done  = is_leader(new) /\ (@ \/ post_end),
        !.acq_bcast  = is_leader(new)
                         /\ (@ \/ Dispatched(old, new, "notify_lock_acquired")),
        !.broken     = is_leader(new) /\ @,
        !.wake       = IF new.op \notin AttemptOps THEN "none"
                       ELSE IF cause \in {"timer", "notify", "released"}
                         THEN cause
                       ELSE @,
        !.notify_failed = IF new = old THEN @ ELSE cause = "failed",
        !.sd_call    = IF ~new.m_on_shut_down_finish THEN "none"
                       ELSE IF ~old.m_on_shut_down_finish
                         THEN (CASE old.lstate = "locked"         -> "leader"
                                 [] old.lstate = "post_acquiring" -> "acquired"
                                 [] Waiting(old)                  -> "waiting"
                                 [] OTHER                         -> "busy")
                       ELSE @,
        !.sd_pre     = new.m_on_shut_down_finish /\ (@ \/ pre_call),
        !.sd_rpc     = new.m_on_shut_down_finish
                         /\ (@ \/ Dispatched(old, new, "release_lock")),
        !.sd_rel     = new.m_on_shut_down_finish
                         /\ (@ \/ Dispatched(old, new, "notify_lock_released")) ]

Observe(old, new, h) == ObserveBy(old, new, h, "none")

\* A step of instance i to member state s2 that leaves owner2 at the lock
\* object.  An instance whose ownership another one removed had its lock
\* broken.
StepBy(i, s2, owner2, cause) ==
  /\ w' = [w EXCEPT ![i] = s2]
  /\ owner' = owner2
  /\ g' = [j \in Inst |->
             IF j = i
               THEN ObserveBy(w[i], s2, g[i], cause)
             ELSE IF owner = j /\ owner2 # j
               THEN [g[j] EXCEPT !.broken = is_leader(w[j])]
             ELSE g[j]]
  /\ inbox' = IF s2.op \in NotifyOps /\ s2.op # w[i].op
                THEN Broadcast(i, PayloadOf(s2.op))
              ELSE IF ~s2.watch THEN [inbox EXCEPT ![i] = <<>>]
              ELSE inbox

Step(i, s2, owner2) == StepBy(i, s2, owner2, "none")

Fault(r) == faults' = IF r = -1 THEN faults + 1 ELSE faults

Running(i) == i # crashed

\* ---------------------------------------------------------------- actions
Init ==
  /\ w = [i \in Inst |-> FreshWatcher]
  /\ owner = None
  /\ inbox = [i \in Inst |-> <<>>]
  /\ crashed = None
  /\ faults = 0
  /\ g = [i \in Inst |-> FreshHistory]

InitCall(i) ==
  /\ Running(i) /\ w[i].op = "uninitialized"
  /\ Step(i, init(w[i]), owner)
  /\ UNCHANGED <<crashed, faults>>

ShutDownCall(i) ==
  /\ Running(i)
  /\ LET s2 == shut_down(w[i])
     IN /\ w' = [w EXCEPT ![i] = s2]
        /\ g' = [g EXCEPT ![i] = Observe(w[i], s2, g[i])]
        /\ inbox' = IF ~s2.watch THEN [inbox EXCEPT ![i] = <<>>] ELSE inbox
  /\ UNCHANGED <<owner, crashed, faults>>

ReleaseLeaderCall(i) ==
  /\ Running(i)
  /\ Step(i, release_leader(w[i]), owner)
  /\ UNCHANGED <<crashed, faults>>

CreateObjectDone(i) ==
  /\ Running(i) /\ w[i].op = "create_object"
  /\ \E r \in Results :
       /\ Step(i, handle_create_leader_object(w[i], r), owner)
       /\ Fault(r)
  /\ UNCHANGED crashed

RegisterWatchDone(i) ==
  /\ Running(i) /\ w[i].op = "register_watch"
  /\ \E r \in Results :
       /\ Step(i, handle_register_watch(w[i], r), owner)
       /\ Fault(r)
  /\ UNCHANGED crashed

\* The lock RPC completes: 0 when the lock object was free, -11 (EAGAIN)
\* when it is held, or a transport failure.
TryLockDone(i) ==
  /\ Running(i) /\ w[i].op = "acquire"
  /\ \E r \in (IF owner = None THEN {0} ELSE {-11}) \cup (Results \ {0}) :
       /\ Step(i, post_acquire_lock_handler(w[i], r),
               IF r = 0 THEN i ELSE owner)
       /\ Fault(r)
  /\ UNCHANGED crashed

\* The lock adapter finishes a failed attempt: a lock acquired before the
\* post-acquire chain failed is given back, and the request completes.
AcquireFailed(i) ==
  /\ Running(i) /\ w[i].op = "acquire_failed"
  /\ Step(i, handle_acquire_leader_lock([w[i] EXCEPT !.lstate = "unlocked"], -1),
          IF owner = i /\ w[i].lstate = "post_acquiring" THEN None ELSE owner)
  /\ UNCHANGED <<crashed, faults>>

InitStatusWatcherDone(i) ==
  /\ Running(i) /\ w[i].op = "init_status_watcher"
  /\ \E r \in Results :
       /\ Step(i, handle_init_status_watcher(w[i], r), owner)
       /\ Fault(r)
  /\ UNCHANGED crashed

\* The Listener calls the completion of post_acquire_handler or
\* pre_release_handler.
ListenerDone(i) ==
  /\ Running(i) /\ w[i].op = "notify_listener"
  /\ \E r \in Results :
       /\ Step(i, handle_notify_listener(w[i], r), owner)
       /\ Fault(r)
  /\ UNCHANGED crashed

\* A broadcast completes when every watcher acknowledged, or fails.
NotifyLockAcquiredDone(i) ==
  /\ Running(i) /\ w[i].op = "notify_lock_acquired"
  /\ \E r \in Results :
       /\ r = 0 => Acked(i)
       /\ StepBy(i, handle_notify_lock_acquired(w[i], r), owner,
                 IF r < 0 THEN "failed" ELSE "none")
       /\ Fault(r)
  /\ UNCHANGED crashed

NotifyHeartbeatDone(i) ==
  /\ Running(i) /\ w[i].op = "notify_heartbeat"
  /\ \E r \in Results :
       /\ r = 0 => Acked(i)
       /\ StepBy(i, handle_notify_heartbeat(w[i], r), owner,
                 IF r < 0 THEN "failed" ELSE "none")
       /\ Fault(r)
  /\ UNCHANGED crashed

NotifyLockReleasedDone(i) ==
  /\ Running(i) /\ w[i].op = "notify_lock_released"
  /\ \E r \in Results :
       /\ r = 0 => Acked(i)
       /\ StepBy(i, handle_notify_lock_released(w[i], r), owner,
                 IF r < 0 THEN "failed" ELSE "none")
       /\ Fault(r)
  /\ UNCHANGED crashed

ShutDownStatusWatcherDone(i) ==
  /\ Running(i) /\ w[i].op = "shut_down_status_watcher"
  /\ Step(i, handle_shut_down_status_watcher(w[i], 0), owner)
  /\ UNCHANGED <<crashed, faults>>

\* The release RPC completes: the lock object is free again unless somebody
\* else took it over in the meantime.
ReleaseLockDone(i) ==
  /\ Running(i) /\ w[i].op = "release_lock"
  /\ Step(i, post_release_lock_handler([w[i] EXCEPT !.lstate = "unlocked"], 0),
          IF owner = i THEN None ELSE owner)
  /\ UNCHANGED <<crashed, faults>>

\* -2 (ENOENT) when nobody holds the lock.
GetLockerDone(i) ==
  /\ Running(i) /\ w[i].op = "get_locker"
  /\ \E r \in (IF owner = None THEN {-2} ELSE {0}) \cup (Results \ {0}) :
       /\ Step(i, handle_get_locker(w[i], r, owner), owner)
       /\ Fault(r)
  /\ UNCHANGED crashed

\* Breaks the lock of the holder found by get_locker; -2 when that holder
\* is gone already.
BreakLockDone(i) ==
  /\ Running(i) /\ w[i].op = "break_lock"
  /\ \E r \in (IF owner = w[i].m_locker THEN {0} ELSE {-2}) \cup (Results \ {0}) :
       /\ Step(i, handle_break_leader_lock(w[i], r),
               IF r = 0 THEN None ELSE owner)
       /\ Fault(r)
  /\ UNCHANGED crashed

ShutDownLeaderLockDone(i) ==
  /\ Running(i) /\ w[i].op = "shut_down_leader_lock"
  /\ Step(i, handle_shut_down_leader_lock(w[i], 0), owner)
  /\ UNCHANGED <<crashed, faults>>

UnregisterWatchDone(i) ==
  /\ Running(i) /\ w[i].op = "unregister_watch"
  /\ Step(i, handle_unregister_watch(w[i], 0), owner)
  /\ UNCHANGED <<crashed, faults>>

TimerFires(i) ==
  /\ Running(i) /\ w[i].m_timer_task # "null"
  /\ StepBy(i, timer_task_fired(w[i]), owner, "timer")
  /\ UNCHANGED <<crashed, faults>>

\* The watch of i delivers its oldest notification to handle_notify, whose
\* acknowledgement lets the transport forget it.
HandleNotify(i) ==
  /\ Running(i) /\ inbox[i] # <<>>
  /\ LET res == handle_notify(w[i], Head(inbox[i]))
     IN /\ w' = [w EXCEPT ![i] = res.s]
        /\ g' = [g EXCEPT ![i] =
                    ObserveBy(w[i], res.s, g[i],
                              IF res.s = w[i] THEN "none"
                              ELSE IF Head(inbox[i]).kind = "LockReleased"
                                THEN "released"
                              ELSE "notify")]
        /\ inbox' = [inbox EXCEPT ![i] = Tail(@)]
  /\ UNCHANGED <<owner, crashed, faults>>

\* Some other client of the pool notifies the object with a payload of a
\* kind this version does not know, or with bytes that do not decode.
ForeignNotify(i) ==
  /\ Running(i) /\ w[i].watch /\ Len(inbox[i]) < MaxInbox
  /\ faults < MaxFaults
  /\ faults' = faults + 1
  /\ \E kind \in {"Unknown", "Undecodable"} :
       inbox' = [inbox EXCEPT ![i] =
                   Append(@, [from |-> External, kind |-> kind])]
  /\ UNCHANGED <<w, owner, crashed, g>>

\* The leader stops: no heartbeat, no RPC activity, its watch is gone.
Crash(i) ==
  /\ crashed = None /\ w[i].lstate = "locked"
  /\ crashed' = i
  /\ inbox' = [inbox EXCEPT ![i] = <<>>]
  /\ UNCHANGED <<w, owner, faults, g>>

Callback(i) ==
  \/ CreateObjectDone(i) \/ RegisterWatchDone(i)
  \/ TryLockDone(i) \/ AcquireFailed(i)
  \/ InitStatusWatcherDone(i) \/ ListenerDone(i)
  \/ NotifyLockAcquiredDone(i) \/ NotifyHeartbeatDone(i)
  \/ NotifyLockReleasedDone(i)
  \/ ShutDownStatusWatcherDone(i) \/ ReleaseLockDone(i)
  \/ GetLockerDone(i) \/ BreakLockDone(i)
  \/ ShutDownLeaderLockDone(i) \/ UnregisterWatchDone(i)
  \/ TimerFires(i) \/ HandleNotify(i)

\* The completion callback of the operation i has in flight.
Completion(i) ==
  \/ CreateObjectDone(i) \/ RegisterWatchDone(i)
  \/ TryLockDone(i) \/ AcquireFailed(i)
  \/ InitStatusWatcherDone(i) \/ ListenerDone(i)
  \/ NotifyLockAcquiredDone(i) \/ NotifyHeartbeatDone(i)
  \/ NotifyLockReleasedDone(i)
  \/ ShutDownStatusWatcherDone(i) \/ ReleaseLockDone(i)
  \/ GetLockerDone(i) \/ BreakLockDone(i)
  \/ ShutDownLeaderLockDone(i) \/ UnregisterWatchDone(i)

Next ==
  \E i \in Inst :
    \/ InitCall(i) \/ ShutDownCall(i) \/ ReleaseLeaderCall(i)
    \/ Callback(i)
    \/ ForeignNotify(i) \/ Crash(i)

Spec == Init /\ [][Next]_vars

\* Timer and completion callbacks of a running instance are scheduled
\* fairly; API calls, disturbances and crashes are not.
LiveSpec == Spec /\ \A i \in Inst : WF_vars(Callback(i))

\* ================================================================ claims

\* C1 (as stated): among the running instances that share the lock object at
\* most one has is_leader() = TRUE.
C1_MutualExclusion ==
  \A i, j \in Inst :
    (i # j /\ Running(i) /\ Running(j))
      => ~(is_leader(w[i]) /\ is_leader(w[j]))

\* C1 (amended): an instance with is_leader() = TRUE is the holder recorded at
\* the lock object unless a peer broke its lock; so two instances are leader
\* at once only when the lock of one of them was broken.
C1_LeaderHoldsLockUnlessBroken ==
  \A i \in Inst : is_leader(w[i]) => (owner = i \/ g[i].broken)

C1_Witness ==
  \E i, j \in Inst :
    /\ i # j /\ Running(i) /\ Running(j)
    /\ is_leader(w[i]) /\ g[i].broken
    /\ is_leader(w[j]) /\ owner = j

\* C2: once the leader stopped, a surviving initialized instance that is not
\* shut down becomes leader (is_leader() = TRUE).
Survivor(b) == crashed # None /\ b # crashed

C2_Failover ==
  (\E b \in Inst :
     Survivor(b) /\ w[b].watch /\ ~w[b].m_on_shut_down_finish)
    ~> (\E b \in Inst :
          Survivor(b) /\ (is_leader(w[b]) \/ w[b].m_on_shut_down_finish))

C2_Witness ==
  \E a, b \in Inst :
    /\ a # b /\ crashed = a /\ g[a].broken
    /\ w[b].lstate = "locked" /\ owner = b

\* C3: is_leader() is TRUE from the moment the acquire RPC succeeds, while
\* the status watcher is initialized and while post_acquire_handler runs; a
\* failed acquire RPC leaves it FALSE.
C3_LeaderOnAcquire ==
  /\ [](\A i \in Inst :
          (\/ w[i].op = "init_status_watcher"
           \/ (w[i].op = "notify_listener" /\ g[i].unmatched = 1))
            => is_leader(w[i]))
  /\ [][\A i \in Inst :
          (w[i].op = "acquire" /\ w'[i].op # "acquire")
            => IF owner' = i
                 THEN is_leader(w'[i]) /\ w'[i].op = "init_status_watcher"
                 ELSE ~is_leader(w'[i]) /\ w'[i].op = "acquire_failed"]_vars

C3_Witness ==
  \E i \in Inst :
    /\ w[i].op = "notify_listener" /\ is_leader(w[i])
    /\ ~g[i].post_done /\ ~w[i].m_on_shut_down_finish

\* C4: LockAcquired is broadcast only after post_acquire_handler completed
\* for this acquisition, and the Leader state is entered only after the
\* broadcast.
C4_BroadcastAfterListener ==
  \A i \in Inst :
    /\ w[i].op = "notify_lock_acquired" => g[i].post_done
    /\ g[i].acq_bcast => g[i].post_done
    /\ w[i].lstate = "locked" => (g[i].post_done /\ g[i].acq_bcast)

C4_Witness ==
  \E i \in Inst :
    w[i].lstate = "locked" /\ w[i].op = "idle" /\ g[i].acq_bcast

\* C5: post_acquire_handler and pre_release_handler alternate, starting with
\* post_acquire_handler.
C5_ListenerAlternates ==
  \A i \in Inst : g[i].unmatched <= 1 /\ ~g[i].orphan_pre

C5_Witness ==
  \E i \in Inst :
    w[i].op = "release_lock" /\ g[i].unmatched = 0 /\ ~g[i].orphan_pre

\* C6: an init() that failed at CreateObject or RegisterWatch leaves the
\* instance Uninitialized with no watch, no lock, no timer task and no
\* acquisition attempt.
C6_FailedInitUnwound ==
  \A i \in Inst :
    g[i].init_r = "err" =>
      /\ w[i].op = "uninitialized"
      /\ ~w[i].watch
      /\ w[i].lstate = "unlocked" /\ owner # i
      /\ w[i].m_timer_task = "null"
      /\ w[i].m_on_finish = "null"

C6_Witness == \E i \in Inst : g[i].init_r = "err"

\* C7 (as stated): shut_down() called while the lock is held runs the release
\* path before teardown; called while it is not held it tears down without
\* pre_release_handler and without LockReleased; the timer task is
\* cancelled.
Teardown(s) == s.op \in {"shut_down_leader_lock", "unregister_watch"}

C7_ShutDownByHeld ==
  \A i \in Inst :
    /\ (g[i].sd_call \in {"leader", "acquired"} /\ Teardown(w[i]))
         => (g[i].sd_pre /\ g[i].sd_rpc /\ g[i].sd_rel)
    /\ g[i].sd_call \in {"waiting", "busy"} => (~g[i].sd_pre /\ ~g[i].sd_rel)
    /\ w[i].m_on_shut_down_finish => w[i].m_timer_task = "null"

\* C7 (amended): shut_down() called in the Leader state runs the release path
\* before teardown; called by a waiting non-leader (no operation in flight)
\* it tears down directly; the timer task is cancelled in every case and
\* the shutdown is over once the instance is Uninitialized.
C7_ShutDownByState ==
  \A i \in Inst :
    /\ (g[i].sd_call = "leader" /\ Teardown(w[i]))
         => (g[i].sd_pre /\ g[i].sd_rpc /\ g[i].sd_rel)
    /\ g[i].sd_call = "waiting"
         => (Teardown(w[i]) /\ ~g[i].sd_pre /\ ~g[i].sd_rpc /\ ~g[i].sd_rel)
    /\ w[i].m_on_shut_down_finish => w[i].m_timer_task = "null"
    /\ w[i].op = "uninitialized" => ~w[i].m_on_shut_down_finish

C7_Witness ==
  \E i, j \in Inst :
    /\ g[i].sd_call = "leader" /\ Teardown(w[i]) /\ g[i].sd_rel
    /\ g[j].sd_call = "waiting" /\ Teardown(w[j])

\* C8: a shut_down() on an instance whose shutdown is requested or done
\* changes nothing: no lock, watch or listener operation, no new state.
ShutDownRequested(s) == s.op = "uninitialized" \/ s.m_on_shut_down_finish

C9_FreshAfterShutDown ==
  [][\A i \in Inst :
       (w[i].op = "unregister_watch" /\ w'[i].op = "uninitialized")
         => /\ ~w'[i].watch /\ w'[i].lstate = "unlocked" /\ owner' # i
            /\ w'[i].m_timer_task = "null"
            /\ w'[i].m_acquire_attempts = 0 /\ w'[i].m_notify_error = 0
            /\ w'[i].m_on_finish = "null" /\ ~w'[i].m_on_shut_down_finish]_vars

\* What a freshly constructed instance is when init() starts its first
\* acquisition attempt.
FirstAttempt ==
  handle_register_watch(handle_create_leader_object(init(FreshWatcher), 0), 0)

\* C9 (amended): when shut_down() completes the instance has no watch, no
\* lock, no timer task and no pending callback; the attempt counter and the
\* last notify error keep their values, and the next init() starts its
\* first acquisition attempt as a fresh instance does.
C9_ReinitAsFresh ==
  /\ [][\A i \in Inst :
          (w[i].op = "unregister_watch" /\ w'[i].op = "uninitialized")
            => /\ ~w'[i].watch /\ w'[i].lstate = "unlocked" /\ owner' # i
               /\ w'[i].m_timer_task = "null"
               /\ w'[i].m_on_finish = "null"
               /\ ~w'[i].m_on_shut_down_finish]_vars
  /\ [][\A i \in Inst :
          (w[i].op = "register_watch" /\ w'[i].op = "acquire")
            => w'[i] = [FirstAttempt EXCEPT
                          !.m_locker = w[i].m_locker,
                          !.m_notify_error = w[i].m_notify_error]]_vars

\* an init() after a shut_down() that left the attempt counter set
C9_Witness ==
  \E i \in Inst :
    w[i].op = "register_watch" /\ w[i].m_acquire_attempts > 0

Starts(i, o) == w'[i].op = o /\ w[i].op # o

\* C11 (as stated): on a release the status watcher is shut down after the
\* lock release RPC and before the LockReleased broadcast.
C11_StatusWatcherAfterRelease ==
  [][\A i \in Inst :
       /\ Starts(i, "shut_down_status_watcher") => w[i].op = "release_lock"
       /\ Starts(i, "notify_lock_released")
            => w[i].op = "shut_down_status_watcher"]_vars

\* C11 (amended): on a release the steps are pre_release_handler, then the
\* shutdown of the status watcher, then the lock release RPC, then the
\* LockReleased broadcast.
C11_StatusWatcherBeforeRelease ==
  [][\A i \in Inst :
       /\ (Starts(i, "notify_listener") /\ ~is_leader(w'[i]))
            => (is_leader(w[i]) /\ w'[i].lstate = "pre_releasing")
       /\ Starts(i, "shut_down_status_watcher")
            => (w[i].op = "notify_listener" /\ w[i].lstate = "pre_releasing")
       /\ Starts(i, "release_lock")
            => (w[i].op = "shut_down_status_watcher"
                  /\ ~w'[i].m_status_watcher)
       /\ Starts(i, "notify_lock_released")
            => w[i].op = "release_lock"]_vars

C11_Witness ==
  \E i \in Inst :
    /\ w[i].op = "notify_lock_released" /\ ~w[i].m_status_watcher
    /\ ~w[i].m_on_shut_down_finish

\* Payloads that show the lock holder is alive.
SignOfLife == {"Heartbeat", "LockAcquired", "LockReleased"}

\* A waiting candidate handles a sign of life on this step.
WokenByNotify(i) ==
  HandleNotify(i) /\ Waiting(w[i]) /\ Head(inbox[i]).kind \in SignOfLife

C13_TeardownAfterAttempt ==
  /\ [](\A i \in Inst :
          (Teardown(w[i]) \/ w[i].op = "uninitialized")
            => (~is_leader(w[i]) /\ owner # i))
  /\ [][\A i \in Inst :
          (Starts(i, "shut_down_leader_lock") /\ w[i].op # "idle")
            => (w[i].m_on_shut_down_finish /\ Completion(i))]_vars

C13_Witness ==
  \E i \in Inst :
    /\ g[i].sd_call = "busy" /\ g[i].sd_rpc /\ g[i].sd_rel
    /\ w[i].op = "shut_down_leader_lock"

\* An operation against the lock, the watch, the status watcher or the
\* Listener is in flight.
InFlight(s) == s.op \notin {"idle", "uninitialized"}

\* C14: while an operation of an instance is in flight, the next one is
\* started only by its completion callback; API calls, timer firings and
\* notifications start none.
C14_OneInFlight ==
  [][\A i \in Inst :
       (InFlight(w[i]) /\ w'[i].op # w[i].op) => Completion(i)]_vars

C14_Witness ==
  \E i \in Inst :
    /\ w[i].op = "acquire" /\ inbox[i] # <<>>
    /\ Head(inbox[i]).kind \in SignOfLife

\* C15: a timer task is pending only while no operation is in flight; one
\* is armed only by a completion callback and only when none is pending;
\* the callback fires only for the pending task of an idle instance that
\* is not shutting down.
C15_OneTimerTask ==
  /\ [](\A i \in Inst : w[i].m_timer_task # "null" => w[i].op = "idle")
  /\ [][\A i \in Inst :
          /\ (w'[i].m_timer_task # "null" /\ w'[i] # w[i])
               => (w[i].m_timer_task = "null" /\ Completion(i))
          /\ TimerFires(i)
               => (w[i].op = "idle" /\ ~w[i].m_on_shut_down_finish
                     /\ w'[i].m_timer_task = "null")]_vars

C15_Witness ==
  \E i, j \in Inst :
    /\ w[i].m_timer_task = "heartbeat" /\ is_leader(w[i])
    /\ w[j].m_timer_task = "get_locker" /\ w[j].m_acquire_attempts > 0

\* The broadcast instance i had in flight completes with an error on this
\* step.
FailedNotify(i) == g'[i].notify_failed /\ w'[i] # w[i]

\* C16 (as stated): a failed Heartbeat, LockAcquired or LockReleased
\* broadcast does not make the instance leave its role; a Leader stays
\* Leader and keeps the lock.
C16_NotifyErrorKeepsRole ==
  [][\A i \in Inst :
       FailedNotify(i)
         => (is_leader(w'[i]) = is_leader(w[i]) /\ owner' = owner)]_vars

\* C16 (amended): a failed broadcast does not stop the state machine.  After
\* a failed LockReleased broadcast the error is recorded and the instance
\* goes on as after a successful one; after a failed Heartbeat or
\* LockAcquired broadcast the Leader starts the release path.
C16_NotifyErrorReleases ==
  [][\A i \in Inst :
       FailedNotify(i)
         => IF w[i].op = "notify_lock_released"
              THEN /\ w'[i].m_notify_error # 0
                   /\ w'[i] = [handle_notify_lock_released(w[i], 0)
                                 EXCEPT !.m_notify_error = w'[i].m_notify_error]
              ELSE /\ w[i].op \in {"notify_heartbeat", "notify_lock_acquired"}
                   /\ is_leader(w[i]) /\ ~is_leader(w'[i])
                   /\ w'[i].lstate = "pre_releasing"
                   /\ w'[i].op = "notify_listener"
                   /\ owner' = owner]_vars

\* a Leader that started the release path because its broadcast failed
C16_Witness ==
  \E i \in Inst :
    /\ g[i].notify_failed /\ w[i].lstate = "pre_releasing"
    /\ w[i].op = "notify_listener" /\ owner = i
    /\ ~w[i].m_on_shut_down_finish /\ ~w[i].queued_release

\* A LockAcquired notification of sender s is waiting at some watcher.
PendingLockAcquired(s) ==
  \E j \in Inst : \E k \in 1..Len(inbox[j]) :
    inbox[j][k] = [from |-> s, kind |-> "LockAcquired"]

ReactionToNotify(i) ==
  LET kind == Head(inbox[i]).kind IN
  /\ (Waiting(w[i]) /\ kind = "LockReleased")
       => /\ w'[i].m_timer_task = "null" /\ w'[i].op = "acquire"
          /\ w'[i].m_acquire_attempts = 1
  /\ (Waiting(w[i]) /\ kind \in {"Heartbeat", "LockAcquired"})
       => /\ w'[i].m_timer_task = "null" /\ w'[i].op = "get_locker"
          /\ w'[i].m_acquire_attempts = w[i].m_acquire_attempts
  /\ kind \notin SignOfLife => (w'[i] = w[i] /\ owner' = owner)

C19_UnregisterThenShutDown ==
  [][\A i \in Inst :
       /\ Starts(i, "shut_down_leader_lock")
            => (w[i].op = "unregister_watch" /\ ~w'[i].watch)
       /\ (Starts(i, "uninitialized") /\ w[i].m_on_shut_down_finish
             /\ w[i].lstate # "unlocked")
            => w[i].op = "shut_down_leader_lock"]_vars

\* C19 (amended): in teardown the lock object is shut down first, with the
\* watch still registered, then the watch is unregistered, then the
\* instance is Uninitialized.
C19_ShutDownThenUnregister ==
  [][\A i \in Inst :
       /\ Starts(i, "shut_down_leader_lock")
            => (w'[i].watch /\ w[i].op # "unregister_watch")
       /\ Starts(i, "unregister_watch")
            => /\ w[i].op = "shut_down_leader_lock"
               /\ w'[i].lstate = "shutdown" /\ w'[i].watch
       /\ (Starts(i, "uninitialized") /\ w[i].watch)
            => /\ w[i].op = "unregister_watch" /\ w[i].lstate = "shutdown"
               /\ ~w'[i].watch /\ ~w'[i].m_on_shut_down_finish]_vars

C19_Witness ==
  \E i \in Inst :
    /\ w[i].op = "unregister_watch" /\ w[i].lstate = "shutdown"
    /\ w[i].watch /\ w[i].m_on_shut_down_finish

====
